---- MODULE Spec2Model ----
(***************************************************************************)
(* GP-Tag encoder core (src/src/encoder/tag_encoder.py): one call of       *)
(* create_fiducial_marker as a sequence of steps, from the canvas to the   *)
(* returned image, with Python's numbers modelled exactly: int as an       *)
(* arbitrary-precision integer, float as an IEEE-754 binary64 value.       *)
(***************************************************************************)
EXTENDS Integers, Sequences, FiniteSets, TLC

(***************************************************************************)
(* A for loop over lo..hi: step applied to the loop state for each index   *)
(* in increasing order.  The range is halved so that the evaluation stays  *)
(* shallow; the left half is evaluated before the right half starts.       *)
(***************************************************************************)
RECURSIVE FoldRange(_, _, _, _)
FoldRange(step(_, _), st, lo, hi) ==
  IF lo > hi THEN st
  ELSE IF lo = hi THEN step(st, lo)
  ELSE LET mid  == (lo + hi) \div 2
           left == FoldRange(step, st, lo, mid)
       IN  IF left = left THEN FoldRange(step, left, mid + 1, hi) ELSE left

\* a function over 1..n as a sequence with every element evaluated
AsSeq(f) == <<>> \o f

\* body applied to the value of x (of x and y): the argument is evaluated
\* once, before the body, however often the body uses it
WithValue(x, body(_)) == CHOOSE r \in { body(v) : v \in {x} } : TRUE
WithValues(x, y, body(_, _)) == CHOOSE r \in { body(v, w) : v \in {x}, w \in {y} } : TRUE

(***************************************************************************)
(* Python int: arbitrary-precision naturals as little-endian limbs.        *)
(* A number is normalised when its highest limb is not 0; zero is <<>>.    *)
(***************************************************************************)
LimbBits == 15
LimbBase == 2^LimbBits

RECURSIVE BNorm(_)
BNorm(a) ==
  IF a = <<>> THEN <<>>
  ELSE IF a[Len(a)] = 0 THEN BNorm(SubSeq(a, 1, Len(a) - 1)) ELSE a

RECURSIVE BFromInt(_)
BFromInt(n) ==
  IF n = 0 THEN <<>> ELSE <<n % LimbBase>> \o BFromInt(n \div LimbBase)

BHead(a) == IF a = <<>> THEN 0 ELSE Head(a)
BTail(a) == IF a = <<>> THEN <<>> ELSE Tail(a)

RECURSIVE BAddC(_, _, _)
BAddC(a, b, c) ==
  IF a = <<>> /\ b = <<>> THEN (IF c = 0 THEN <<>> ELSE <<c>>)
  ELSE LET s == BHead(a) + BHead(b) + c
       IN  <<s % LimbBase>> \o BAddC(BTail(a), BTail(b), s \div LimbBase)

BAdd(a, b) == BAddC(a, b, 0)

\* a - b - c for a >= b + c
RECURSIVE BSubC(_, _, _)
BSubC(a, b, c) ==
  IF a = <<>> THEN <<>>
  ELSE LET d == Head(a) - BHead(b) - c
       IN  IF d < 0 THEN <<d + LimbBase>> \o BSubC(Tail(a), BTail(b), 1)
           ELSE <<d>> \o BSubC(Tail(a), BTail(b), 0)

BSub(a, b) == BNorm(BSubC(a, b, 0))

\* -1, 0, 1 as a < b, a = b, a > b (both normalised)
RECURSIVE BCmpFrom(_, _, _)
BCmpFrom(a, b, i) ==
  IF i = 0 THEN 0
  ELSE IF a[i] < b[i] THEN -1
  ELSE IF a[i] > b[i] THEN 1
  ELSE BCmpFrom(a, b, i - 1)

BCmp(a, b) ==
  IF Len(a) < Len(b) THEN -1
  ELSE IF Len(a) > Len(b) THEN 1
  ELSE BCmpFrom(a, b, Len(a))

\* a * d + c for a limb d
RECURSIVE BMulSmallC(_, _, _)
BMulSmallC(a, d, c) ==
  IF a = <<>> THEN (IF c = 0 THEN <<>> ELSE <<c>>)
  ELSE LET p == Head(a) * d + c
       IN  <<p % LimbBase>> \o BMulSmallC(Tail(a), d, p \div LimbBase)

BMulSmall(a, d) == BNorm(BMulSmallC(a, d, 0))

RECURSIVE BMulR(_, _)
BMulR(a, b) ==
  IF b = <<>> THEN <<>>
  ELSE BAdd(BMulSmallC(a, Head(b), 0), <<0>> \o BMulR(a, Tail(b)))

BMul(a, b) == BNorm(BMulR(a, b))

BZeros(n) == AsSeq([i \in 1..n |-> 0])

\* a * 2^k
BShl(a, k) ==
  IF a = <<>> THEN <<>>
  ELSE BMulSmall(BZeros(k \div LimbBits) \o a, 2^(k % LimbBits))

\* floor(a / 2^k)
BShr(a, k) ==
  LET q == k \div LimbBits
      r == k % LimbBits
      n == Len(a) - q
  IN  IF n <= 0 THEN <<>>
      ELSE BNorm(AsSeq([i \in 1..n |->
                    (a[q + i] \div 2^r)
                    + (IF q + i < Len(a) THEN (a[q + i + 1] % 2^r) * 2^(LimbBits - r)
                       ELSE 0)]))

RECURSIVE SmallBitLen(_)
SmallBitLen(n) == IF n = 0 THEN 0 ELSE 1 + SmallBitLen(n \div 2)

\* the number of binary digits of a (int.bit_length)
BBitLen(a) ==
  IF a = <<>> THEN 0 ELSE (Len(a) - 1) * LimbBits + SmallBitLen(a[Len(a)])

\* bit i of a, bit 0 the least significant
BBit(a, i) ==
  IF i \div LimbBits >= Len(a) THEN 0
  ELSE (a[(i \div LimbBits) + 1] \div 2^(i % LimbBits)) % 2

\* whether a is a multiple of 2^k
BLowZero(a, k) == BShl(BShr(a, k), k) = a

BOne == <<1>>

BPow2(k) == BShl(BOne, k)

\* <<quotient, remainder>> of n by d > 0, by binary long division from the
\* most significant bit of n
BDivMod(n, d) ==
  LET nb == BBitLen(n)
      step(qr, j) ==
        LET r2 == BAddC(BShl(qr[2], 1), <<>>, BBit(n, nb - j))
            ge == BCmp(r2, d) >= 0
        IN  <<BAddC(BShl(qr[1], 1), <<>>, IF ge THEN 1 ELSE 0),
              IF ge THEN BSub(r2, d) ELSE r2>>
  IN  FoldRange(step, <<<<>>, <<>>>>, 1, nb)

(***************************************************************************)
(* Python numbers.  A value is [fl, neg, m, e]: the int (-1)^neg * m when  *)
(* fl is FALSE (e = 0), the float (-1)^neg * m * 2^e when fl is TRUE, with *)
(* m of at most MantBits binary digits (binary64, normal range).           *)
(***************************************************************************)
MantBits == 53

PyIntOf(neg, mag) == [fl |-> FALSE, neg |-> neg /\ mag # <<>>, m |-> mag, e |-> 0]

\* a small int literal of the source
Lit(n) == IF n < 0 THEN PyIntOf(TRUE, BFromInt(-n)) ELSE PyIntOf(FALSE, BFromInt(n))

\* the binary64 value nearest to (-1)^neg * M * 2^E, ties to even
FRound(neg, M0, E) ==
  WithValue(M0, LAMBDA M :
    LET n == BBitLen(M)
    IN  IF n <= MantBits THEN [fl |-> TRUE, neg |-> neg, m |-> M, e |-> E]
        ELSE LET k      == n - MantBits
                 t      == BShr(M, k)
                 guard  == BBit(M, k - 1)
                 sticky == ~BLowZero(M, k - 1)
                 up     == guard = 1 /\ (sticky \/ BBit(t, 0) = 1)
             IN  [fl |-> TRUE, neg |-> neg,
                  m |-> IF up THEN BAdd(t, BOne) ELSE t, e |-> E + k])

\* float(v)
PyFloat(v) == IF v.fl THEN v ELSE FRound(v.neg, v.m, 0)

\* the exact sum of two signed magnitudes, as <<neg, magnitude>>
SignedAdd(na, Ma, nb, Mb) ==
  IF na = nb THEN <<na, BAdd(Ma, Mb)>>
  ELSE IF BCmp(Ma, Mb) >= 0 THEN <<na, BSub(Ma, Mb)>>
  ELSE <<nb, BSub(Mb, Ma)>>

\* a + b
PyAdd(a0, b0) ==
  WithValues(a0, b0, LAMBDA a, b :
    IF ~a.fl /\ ~b.fl
    THEN LET s == SignedAdd(a.neg, a.m, b.neg, b.m) IN PyIntOf(s[1], s[2])
    ELSE LET x == PyFloat(a)
             y == PyFloat(b)
             e == IF x.e < y.e THEN x.e ELSE y.e
             s == SignedAdd(x.neg, BShl(x.m, x.e - e), y.neg, BShl(y.m, y.e - e))
         IN  FRound(s[1] /\ s[2] # <<>>, s[2], e))

\* a * b
PyMul(a0, b0) ==
  WithValues(a0, b0, LAMBDA a, b :
    IF ~a.fl /\ ~b.fl THEN PyIntOf(a.neg # b.neg, BMul(a.m, b.m))
    ELSE LET x == PyFloat(a)
             y == PyFloat(b)
         IN  FRound(x.neg # y.neg, BMul(x.m, y.m), x.e + y.e))

\* a / b (true division, b # 0): the correctly rounded quotient
PyTrueDiv(a0, b0) ==
  WithValues(a0, b0, LAMBDA a, b :
    LET x  == IF ~a.fl /\ ~b.fl THEN a ELSE PyFloat(a)
        y  == IF ~a.fl /\ ~b.fl THEN b ELSE PyFloat(b)
        d  == MantBits + 2 + BBitLen(y.m) - BBitLen(x.m)
        k  == IF d > 0 THEN d ELSE 0
        qr == BDivMod(BShl(x.m, k), y.m)
        M  == BAddC(BShl(qr[1], 1), <<>>, IF qr[2] = <<>> THEN 0 ELSE 1)
    IN  IF x.m = <<>> THEN [fl |-> TRUE, neg |-> x.neg # y.neg, m |-> <<>>, e |-> 0]
        ELSE FRound(x.neg # y.neg, M, x.e - y.e - k - 1))

\* int(v): truncation toward zero
PyInt(v0) ==
  WithValue(v0, LAMBDA v :
    IF ~v.fl THEN v
    ELSE IF v.e >= 0 THEN PyIntOf(v.neg, BShl(v.m, v.e))
    ELSE PyIntOf(v.neg, BShr(v.m, -v.e)))

\* math.floor(v)
PyFloor(v0) ==
  WithValue(v0, LAMBDA v :
    IF ~v.fl THEN v
    ELSE IF v.e >= 0 THEN PyIntOf(v.neg, BShl(v.m, v.e))
    ELSE LET t == BShr(v.m, -v.e)
         IN  IF v.neg /\ ~BLowZero(v.m, -v.e) THEN PyIntOf(TRUE, BAdd(t, BOne))
             ELSE PyIntOf(v.neg, t))

\* a ** k for a small int k >= 0, by squaring
RECURSIVE PyPow(_, _)
PyPow(a, k) ==
  IF k = 0 THEN Lit(1)
  ELSE LET h  == PyPow(a, k \div 2)
           sq == PyMul(h, h)
       IN  IF k % 2 = 1 THEN PyMul(sq, a) ELSE sq

(***************************************************************************)
(* Python strings of binary digits: sequences of "0", "1" and "-".         *)
(***************************************************************************)
Rep(c, n) == AsSeq([i \in 1..n |-> c])

\* the binary digits of a natural, most significant first ("0" for zero)
BToBits(a0) ==
  WithValue(a0, LAMBDA a :
    LET n == BBitLen(a)
    IN  IF n = 0 THEN <<"0">>
        ELSE AsSeq([i \in 1..n |-> IF BBit(a, n - i) = 1 THEN "1" ELSE "0"]))

\* format(v, '0<w>b'): sign first, zero-padded to at least w characters;
\* a float has no 'b' format (ValueError)
PyFormatB(v0, w) ==
  WithValue(v0, LAMBDA v :
    IF v.fl THEN [err |-> "ValueError", s |-> <<>>]
    ELSE LET d    == BToBits(v.m)
             sign == IF v.neg THEN <<"-">> ELSE <<>>
             pad  == w - Len(d) - Len(sign)
         IN  [err |-> "", s |-> sign \o Rep("0", IF pad > 0 THEN pad ELSE 0) \o d])

\* the natural written by a string of binary digits
BFromBitStr(d0) ==
  WithValue(d0, LAMBDA d :
    LET n == Len(d)
        bit(p) == IF p < n /\ d[n - p] = "1" THEN 1 ELSE 0
        RECURSIVE limb(_, _)
        limb(i, j) == IF j = LimbBits THEN 0
                      ELSE bit(LimbBits * (i - 1) + j) * 2^j + limb(i, j + 1)
    IN  BNorm(AsSeq([i \in 1..((n + LimbBits - 1) \div LimbBits) |-> limb(i, 0)])))

IsDigits(s) == \A i \in 1..Len(s) : s[i] \in {"0", "1"}

\* int(s, 2): an optional leading sign, then one or more binary digits
PyIntBase2(s0) ==
  WithValue(s0, LAMBDA s :
    LET neg == s # <<>> /\ s[1] = "-"
        d   == IF neg THEN Tail(s) ELSE s
    IN  IF d = <<>> \/ ~IsDigits(d) THEN [err |-> "ValueError", v |-> Lit(0)]
        ELSE [err |-> "", v |-> PyIntOf(neg, BFromBitStr(d))])

\* v.to_bytes(n, 'big'): n bytes, most significant first; a negative v or one
\* that does not fit raises OverflowError
PyToBytes(v0, n) ==
  WithValue(v0, LAMBDA v :
    IF v.neg \/ BBitLen(v.m) > 8 * n THEN [err |-> "OverflowError", b |-> <<>>]
    ELSE LET RECURSIVE byte(_, _)
             byte(j, t) == IF t = 8 THEN 0
                           ELSE BBit(v.m, 8 * (n - j) + t) * 2^t + byte(j, t + 1)
         IN  [err |-> "", b |-> AsSeq([j \in 1..n |-> byte(j, 0)])])

\* ''.join(format(byte, '08b') for byte in bs): eight digits a byte, the
\* most significant first
BytesToBits(bs0) ==
  WithValue(bs0, LAMBDA bs :
    AsSeq([i \in 1..(8 * Len(bs)) |->
             IF (bs[((i - 1) \div 8) + 1] \div 2^(7 - ((i - 1) % 8))) % 2 = 1
             THEN "1" ELSE "0"]))

(***************************************************************************)
(* reedsolo.RSCodec(nsym).encode: Reed-Solomon over GF(2^8), primitive     *)
(* polynomial 0x11d, generator 2, first consecutive root 0.                *)
(***************************************************************************)
\* bit i of a small natural
SmallBit(a, i) == (a \div 2^i) % 2

\* bit i of a ^ b, in its place
XorBit(a, b, i) == ((SmallBit(a, i) + SmallBit(b, i)) % 2) * 2^i

\* a ^ b for a, b < 2^9
BitXor(a, b) ==
    ((XorBit(a, b, 0) + XorBit(a, b, 1)) + (XorBit(a, b, 2) + XorBit(a, b, 3)))
  + ((XorBit(a, b, 4) + XorBit(a, b, 5)) + (XorBit(a, b, 6) + XorBit(a, b, 7)))
  + XorBit(a, b, 8)

gf_prim == 285

\* gf_mult_noLUT(x, 2): x doubled and reduced by gf_prim
gf_double(x) == IF 2 * x >= 256 THEN BitXor(2 * x, gf_prim) ELSE 2 * x

\* the tables before init_tables has run
NoTables == [exp |-> <<>>, log |-> <<>>]

\* init_tables: exp[i + 1] = 2^i in GF(2^8) for i in 0..254, and log its
\* inverse, log[x] the i with 2^i = x for x in 1..255
init_tables ==
  LET e == FoldRange(LAMBDA t, i : Append(t, gf_double(t[i])), <<1>>, 1, 254)
  IN  [exp |-> e,
       log |-> AsSeq([x \in 1..255 |-> CHOOSE i \in 0..254 : e[i + 1] = x])]

\* the product in GF(2^8), by the tables gf
gf_mul(gf, x, y) ==
  IF x = 0 \/ y = 0 THEN 0 ELSE gf.exp[((gf.log[x] + gf.log[y]) % 255) + 1]

\* x ** k in GF(2^8) for x # 0
gf_pow(gf, x, k) == gf.exp[((gf.log[x] * k) % 255) + 1]

\* g * (X + a) for a polynomial g, highest coefficient first
gf_poly_mul_root(gf, g, a) ==
  AsSeq([k \in 1..(Len(g) + 1) |->
           BitXor(IF k <= Len(g) THEN g[k] ELSE 0,
                  IF k >= 2 THEN gf_mul(gf, g[k - 1], a) ELSE 0)])

\* the product of (X + 2^i) for i in 0..nsym-1
rs_generator_poly(gf, nsym) ==
  FoldRange(LAMBDA g, i : gf_poly_mul_root(gf, g, gf_pow(gf, 2, i)), <<1>>, 0, nsym - 1)

\* one step of the synthetic division of rs_encode_msg, at message index i
rs_divide_step(gf, msg_out, gen, i) ==
  LET coef == msg_out[i]
  IN  IF coef = 0 THEN msg_out
      ELSE AsSeq([j \in 1..Len(msg_out) |->
                    IF j > i /\ j < i + Len(gen)
                    THEN BitXor(msg_out[j], gf_mul(gf, gen[j - i + 1], coef))
                    ELSE msg_out[j]])

\* the synthetic division of msg_in, padded with nsym zeros, by gen
rs_encode_msg(gf, msg_in, nsym, gen) ==
  LET rem == FoldRange(LAMBDA m, i : rs_divide_step(gf, m, gen, i),
                       msg_in \o BZeros(nsym), 1, Len(msg_in))
  IN  msg_in \o SubSeq(rem, Len(msg_in) + 1, Len(msg_in) + nsym)

(***************************************************************************)
(* The arguments of create_fiducial_marker.  A float literal is written    *)
(* as its exact binary64 value, mantissa * 2^exponent.                     *)
(***************************************************************************)
Flt(neg, mant, exp) == [fl |-> TRUE, neg |-> neg, m |-> mant, e |-> exp]

F_63_8203894 == Flt(FALSE, <<32279, 2602, 9226, 255>>, -47)     \* 63.8203894
F_20_3058847 == Flt(FALSE, <<27747, 30126, 7324, 81>>, -47)     \* 20.3058847
F_45_16      == Flt(FALSE, <<27525, 28835, 5242, 45>>, -45)     \* 45.16
F_0_707      == Flt(FALSE, <<13369, 28049, 32505, 180>>, -53)   \* 0.707
F_0_36       == Flt(FALSE, <<27525, 28835, 5242, 92>>, -53)     \* 0.36
F_3_6        == Flt(FALSE, <<19661, 6553, 13107, 230>>, -51)    \* 3.6
F_90_0000001 == Flt(FALSE, <<12261, 107, 0, 90>>, -45)          \* 90.0000001
F_180_5      == Flt(FALSE, <<361>>, -1)                         \* 180.5
F_1_5        == Flt(FALSE, <<3>>, -1)                           \* 1.5
F_m1_5       == Flt(TRUE, <<3>>, -1)                            \* -1.5
F_3_7        == Flt(FALSE, <<19661, 6553, 13107, 118>>, -50)    \* 3.7
F_m0_1       == Flt(TRUE, <<19661, 6553, 13107, 102>>, -55)     \* -0.1
F_45_5       == Flt(FALSE, <<91>>, -1)                          \* 45.5
F_77_6135488991746 == Flt(FALSE, <<7401, 17716, 7441, 155>>, -46)  \* 77.6135488991746

\* the largest base unit U the model draws
MaxU == 2

\* U: the valid 1..MaxU, and the invalid 0 and -1
UValues == (-1)..MaxU

\* a call with every field inside its declared range
Typical ==
  [latitude |-> F_63_8203894, longitude |-> F_20_3058847, altitude |-> F_45_16,
   quaternion |-> <<F_0_707, Lit(0), F_0_707, Lit(0)>>, scale |-> F_0_36,
   accuracy |-> Lit(2), tag_id |-> Lit(123), version_id |-> Lit(3)]

\* every field at the upper end of its declared range
AllMaximum ==
  [latitude |-> Lit(90), longitude |-> Lit(180), altitude |-> Lit(10000),
   quaternion |-> <<Lit(1), Lit(1), Lit(1), Lit(1)>>, scale |-> F_3_6,
   accuracy |-> Lit(3), tag_id |-> Lit(4095), version_id |-> Lit(15)]

\* every field at the lower end of its declared range
AllMinimum ==
  [latitude |-> Lit(-90), longitude |-> Lit(-180), altitude |-> Lit(-10000),
   quaternion |-> <<Lit(-1), Lit(-1), Lit(-1), Lit(-1)>>, scale |-> Lit(0),
   accuracy |-> Lit(0), tag_id |-> Lit(0), version_id |-> Lit(0)]

\* four calls with every field inside its declared range
Scenarios ==
  { [latitude |-> Lit(0), longitude |-> Lit(0), altitude |-> Lit(0),
     quaternion |-> <<Lit(0), Lit(0), Lit(0), Lit(1)>>, scale |-> F_0_36,
     accuracy |-> Lit(0), tag_id |-> Lit(0), version_id |-> Lit(0)],
    Typical, AllMaximum, AllMinimum }

\* one field of a scenario replaced: in range (45.5, 77.6135488991746) or
\* outside its range
Overrides(b) ==
  { [b EXCEPT !.latitude = v] :
      v \in {F_45_5, F_77_6135488991746, F_90_0000001, Lit(-91), Lit(12000)} }
  \cup { [b EXCEPT !.longitude = v] : v \in {F_180_5, Lit(-181)} }
  \cup { [b EXCEPT !.altitude = v] : v \in {Lit(10001), Lit(-10001)} }
  \cup { [b EXCEPT !.quaternion[1] = F_1_5], [b EXCEPT !.quaternion[4] = F_m1_5] }
  \cup { [b EXCEPT !.scale = v] : v \in {F_3_7, F_m0_1} }
  \cup { [b EXCEPT !.accuracy = v] : v \in {Lit(4), Lit(-1)} }
  \cup { [b EXCEPT !.tag_id = v] : v \in {Lit(4096), Lit(-1)} }
  \cup { [b EXCEPT !.version_id = v] : v \in {Lit(16), Lit(-1)} }

Inputs == Scenarios \cup UNION { Overrides(b) : b \in Scenarios }

(***************************************************************************)
(* Main data encoding and reserved area data: the try block.               *)
(***************************************************************************)
\* (2**n - 1) / d
QuantFactor(n, d) == PyTrueDiv(PyAdd(PyPow(Lit(2), n), Lit(-1)), d)

\* the binary64 values of the five factors, as QuantFactor computes them
lat_factor   == Flt(FALSE, <<5097, 11645, 1456, 182>>, -25)     \* (2**35 - 1) / 180
lon_factor   == Flt(FALSE, <<0, 11648, 1456, 182>>, -25)        \* (2**36 - 1) / 360
alt_factor   == Flt(FALSE, <<20919, 15361, 23435, 209>>, -42)   \* (2**25 - 1) / 20000
quat_factor  == Flt(FALSE, <<0, 0, 32640, 255>>, -38)           \* (2**16 - 1) / 2
scale_factor == Flt(FALSE, <<10923, 21845, 7210, 142>>, -38)    \* (2**16 - 1) / 3.6

\* the literals above are the values the source's expressions compute
factors_as_computed ==
  /\ lat_factor = QuantFactor(35, Lit(180))
  /\ lon_factor = QuantFactor(36, Lit(360))
  /\ alt_factor = QuantFactor(25, Lit(20000))
  /\ quat_factor = QuantFactor(16, Lit(2))
  /\ scale_factor = QuantFactor(16, F_3_6)

lat_value(latitude)   == PyInt(PyMul(PyAdd(latitude, Lit(90)), lat_factor))
lon_value(longitude)  == PyInt(PyMul(PyAdd(longitude, Lit(180)), lon_factor))
alt_value(altitude)   == PyInt(PyMul(PyAdd(altitude, Lit(10000)), alt_factor))
\* quat_value with the factor 2**16 / 2
quat_value_pow2(q)    == PyInt(PyMul(PyAdd(q, Lit(1)), Lit(32768)))
quat_value(q)         == PyInt(PyMul(PyAdd(q, Lit(1)), quat_factor))
scale_value(scale)    == PyInt(PyMul(scale, scale_factor))

\* ceil(a / b) for naturals a and b > 0
CeilDiv(a, b) == (a + b - 1) \div b

\* pack_main with the longitude field ahead of the latitude field
pack_main_lon_first(p) ==
  LET lat_bits      == PyFormatB(lat_value(p.latitude), 35)
      lon_bits      == PyFormatB(lon_value(p.longitude), 36)
      alt_bits      == PyFormatB(alt_value(p.altitude), 25)
      q_bits        == [i \in 1..4 |-> PyFormatB(quat_value(p.quaternion[i]), 16)]
      quat_bits     == q_bits[1].s \o q_bits[2].s \o q_bits[3].s \o q_bits[4].s
      accuracy_bits == PyFormatB(p.accuracy, 2)
      scale_bits    == PyFormatB(scale_value(p.scale), 16)
  IN  IF accuracy_bits.err # "" THEN <<>>
      ELSE lon_bits.s \o lat_bits.s \o alt_bits.s \o quat_bits
             \o accuracy_bits.s \o scale_bits.s

\* main_data_bits, or <<>> where a format call raises ValueError
pack_main(p) ==
  LET lat_bits      == PyFormatB(lat_value(p.latitude), 35)
      lon_bits      == PyFormatB(lon_value(p.longitude), 36)
      alt_bits      == PyFormatB(alt_value(p.altitude), 25)
      q_bits        == [i \in 1..4 |-> PyFormatB(quat_value(p.quaternion[i]), 16)]
      quat_bits     == q_bits[1].s \o q_bits[2].s \o q_bits[3].s \o q_bits[4].s
      accuracy_bits == PyFormatB(p.accuracy, 2)
      scale_bits    == PyFormatB(scale_value(p.scale), 16)
  IN  IF accuracy_bits.err # "" THEN <<>>
      ELSE lat_bits.s \o lon_bits.s \o alt_bits.s \o quat_bits
             \o accuracy_bits.s \o scale_bits.s

\* main_ecc_bytes with the half rounded down
main_ecc_bytes_floor(bits) == CeilDiv(Len(bits), 8) \div 2

\* the number of data bytes and of ECC bytes of the main payload
main_data_bytes(bits) == CeilDiv(Len(bits), 8)
main_ecc_bytes(bits)  == CeilDiv(main_data_bytes(bits), 2)

\* bits_to_bytes with the string filled up to 8 * n digits on the right
bits_to_bytes_padded_right(bits, n) ==
  LET v == PyIntBase2(bits \o Rep("0", 8 * n - Len(bits)))
  IN  IF v.err # "" THEN [err |-> v.err, b |-> <<>>] ELSE PyToBytes(v.v, n)

\* int(bits, 2).to_bytes(n, 'big'), with the error either call raises
bits_to_bytes(bits, n) ==
  LET v == PyIntBase2(bits)
  IN  IF v.err # "" THEN [err |-> v.err, b |-> <<>>] ELSE PyToBytes(v.v, n)

\* tag_id_bits + version_id_bits
pack_reserved(p) ==
  LET tag_id_bits     == PyFormatB(p.tag_id, 12)
      version_id_bits == PyFormatB(p.version_id, 4)
  IN  [err |-> IF tag_id_bits.err # "" THEN tag_id_bits.err ELSE version_id_bits.err,
       s   |-> tag_id_bits.s \o version_id_bits.s]

\* the exception raised on the way from the arguments to
\* main_data_bytes_array, "" when there is none
main_error(bits) ==
  IF bits = <<>> THEN "ValueError"
  ELSE bits_to_bytes(bits, main_data_bytes(bits)).err

\* the exception raised while the reserved payload is packed and converted
reserved_error(p) ==
  LET r == pack_reserved(p)
  IN  IF r.err # "" THEN r.err ELSE bits_to_bytes(r.s, 2).err

(***************************************************************************)
(* The canvas: the image and the shapes painted on it, in paint order.     *)
(***************************************************************************)
grid_size == 21

grid_diagonal(u) == 15 * u
\* outer_annulus_outer_radius with an outer annulus two units wide
outer_annulus_outer_radius_narrow(u) == grid_diagonal(u) + (2 * u)
outer_annulus_outer_radius(u) == grid_diagonal(u) + (3 * u)
inner_annulus_inner_radius(u) == grid_diagonal(u)
\* the inner annulus ending where it starts
inner_annulus_outer_radius_grid(u) == inner_annulus_inner_radius(u)
inner_annulus_outer_radius(u) == inner_annulus_inner_radius(u) + u
middle_annulus_outer_radius(u) == inner_annulus_outer_radius(u) + u

\* Image.new raises ValueError for a negative width or height
image_new_raises(u) == 2 * outer_annulus_outer_radius(u) < 0

Shape(op, r, fill, a0, a1) == [op |-> op, r |-> r, fill |-> fill, a0 |-> a0, a1 |-> a1]

\* a quadrant table that a rotation by 180 degrees maps to itself
quadrants_repeated == << <<0, 90, 1, 1>>, <<90, 180, 1, 0>>, <<180, 270, 1, 1>>, <<270, 360, 1, 0>> >>
quadrants == << <<0, 90, 1, 1>>, <<90, 180, 1, 0>>, <<180, 270, 0, 1>>, <<270, 360, 0, 0>> >>

\* the two pieslices of quadrant q
quadrant_slices(u, q) ==
  << Shape("pieslice", middle_annulus_outer_radius(u),
           IF q[3] = 1 THEN "black" ELSE "white", q[1], q[2]),
     Shape("pieslice", inner_annulus_outer_radius(u),
           IF q[4] = 1 THEN "black" ELSE "white", q[1], q[2]) >>

\* lines 65-90: the outer black disk and the two white disks
disk_layers(u) ==
  << Shape("ellipse", outer_annulus_outer_radius(u), "black", 0, 360),
     Shape("ellipse", middle_annulus_outer_radius(u), "white", 0, 360),
     Shape("ellipse", inner_annulus_outer_radius(u), "white", 0, 360) >>

\* lines 108-118: spike i, between border middle points i and (i + 1) % 4
spike_layers(u) ==
  AsSeq([i \in 1..4 |-> Shape("polygon", outer_annulus_outer_radius(u), "black", i - 1, i % 4)])

\* lines 152-167: the pieslices of the four quadrants
quadrant_layers(u) ==
  quadrant_slices(u, quadrants[1]) \o quadrant_slices(u, quadrants[2])
    \o quadrant_slices(u, quadrants[3]) \o quadrant_slices(u, quadrants[4])

\* canvas with the spikes drawn before the two white disks and the outline
\* drawn last
canvas_spikes_first(u) ==
  [ background |-> "white",
    size_x   |-> 2 * outer_annulus_outer_radius(u),
    size_y   |-> 2 * outer_annulus_outer_radius(u),
    origin_x |-> outer_annulus_outer_radius(u),
    origin_y |-> outer_annulus_outer_radius(u),
    layers   |-> << disk_layers(u)[1] >> \o spike_layers(u)
                   \o << disk_layers(u)[2], disk_layers(u)[3],
                         Shape("crop", inner_annulus_inner_radius(u), "saved", 0, 360) >>
                   \o quadrant_layers(u)
                   \o << Shape("paste", inner_annulus_inner_radius(u), "saved", 0, 360),
                         Shape("outline", outer_annulus_outer_radius(u), "black", 0, 360) >> ]

\* the image after the annuli, spikes and quadrants are drawn: the colour
\* Image.new fills it with and the shapes in the order they are drawn.  Lines
\* 121-133 save the inner circle, lines 136-141 outline the outer ring, lines
\* 170-175 paste the saved circle back
canvas(u) ==
  [ background |-> "white",
    size_x   |-> 2 * outer_annulus_outer_radius(u),
    size_y   |-> 2 * outer_annulus_outer_radius(u),
    origin_x |-> outer_annulus_outer_radius(u),
    origin_y |-> outer_annulus_outer_radius(u),
    layers   |-> disk_layers(u) \o spike_layers(u)
                   \o << Shape("crop", inner_annulus_inner_radius(u), "saved", 0, 360),
                         Shape("outline", outer_annulus_outer_radius(u), "black", 0, 360) >>
                   \o quadrant_layers(u)
                   \o << Shape("paste", inner_annulus_inner_radius(u), "saved", 0, 360) >> ]

NoImage ==
  [background |-> "none", size_x |-> 0, size_y |-> 0, origin_x |-> 0, origin_y |-> 0,
   layers |-> <<>>]

(***************************************************************************)
(* The module grid.  grid[y + 1][x + 1] is the source's grid[y, x].        *)
(***************************************************************************)
pattern ==
  << <<1, 1, 1, 1, 1>>,
     <<1, 0, 0, 0, 1>>,
     <<1, 0, 1, 0, 1>>,
     <<1, 0, 0, 0, 1>>,
     <<1, 1, 1, 1, 1>> >>

\* np.ones((grid_size, grid_size))
ones_grid == AsSeq([r \in 1..grid_size |-> AsSeq([c \in 1..grid_size |-> 1])])

\* grid[y:y+5, x:x+5] = pattern
place_finder_pattern(g, x, y) ==
  AsSeq([r \in 1..grid_size |-> AsSeq([c \in 1..grid_size |->
     IF r - 1 >= y /\ r - 1 < y + 5 /\ c - 1 >= x /\ c - 1 < x + 5
     THEN pattern[r - y][c - x] ELSE g[r][c]])])

\* timing_value with the parity test turned round
timing_value_odd(i) == IF i % 2 = 1 THEN 1 ELSE 0

\* the value of the timing module at index i
timing_value(i) == IF i % 2 = 0 THEN 1 ELSE 0

\* one round of the timing loop: grid[5, i] and grid[i, 5]
timing_step(g, i) ==
  LET h == [g EXCEPT ![5 + 1][i + 1] = timing_value(i)]
  IN  [h EXCEPT ![i + 1][5 + 1] = timing_value(i)]

\* the grid when the try block is entered
initial_grid ==
  LET g1 == place_finder_pattern(ones_grid, 0, 0)
      g2 == place_finder_pattern(g1, grid_size - 5, 0)
      g3 == place_finder_pattern(g2, 0, grid_size - 5)
      g4 == place_finder_pattern(g3, grid_size - 5, grid_size - 5)
  IN  FoldRange(timing_step, g4, 5, grid_size - 5 - 1)

\* is_reserved without the timing row and column
is_reserved_finders_only(x, y) ==
  \/ (x < 5 /\ y < 5)
  \/ (x < 5 /\ y > grid_size - 6)
  \/ (x > grid_size - 6 /\ y < 5)
  \/ (x > grid_size - 6 /\ y > grid_size - 6)

is_reserved(x, y) ==
  \/ (x < 5 /\ y < 5)
  \/ (x < 5 /\ y > grid_size - 6)
  \/ (x > grid_size - 6 /\ y < 5)
  \/ (x > grid_size - 6 /\ y > grid_size - 6)
  \/ x = 5
  \/ y = 5

reserved_modules ==
  { m \in (0..(grid_size - 1)) \X (0..(grid_size - 1)) : is_reserved(m[1], m[2]) }

(***************************************************************************)
(* The payload traversal.                                                  *)
(***************************************************************************)
\* skips_column with no column passed over
skips_column_none(x) == FALSE

\* the column the outer loop passes over
skips_column(x) == x = 6

\* the body of the inner loop at module (x, y); brk after its break
place_module(st, x, y, bits) ==
  IF st.brk THEN st
  ELSE IF <<x, y>> \notin reserved_modules
       THEN IF st.bit_index < Len(bits)
            THEN [grid      |-> [st.grid EXCEPT ![y + 1][x + 1] =
                                   IF bits[st.bit_index + 1] = "1" THEN 1 ELSE 0],
                  bit_index |-> st.bit_index + 1,
                  brk       |-> FALSE]
            ELSE [st EXCEPT !.brk = TRUE]
       ELSE st

\* the body of the outer loop at column x; done after its break
place_column(st, x, bits) ==
  IF st.done \/ skips_column(x) THEN st
  ELSE LET c == FoldRange(LAMBDA t, k : place_module(t, x, grid_size - 1 - k, bits),
                          [grid |-> st.grid, bit_index |-> st.bit_index, brk |-> FALSE],
                          0, grid_size - 1)
       IN  [grid |-> c.grid, bit_index |-> c.bit_index,
            done |-> c.bit_index >= Len(bits)]

\* both loops: the grid and bit_index after the traversal
place_bits(g, bits) ==
  FoldRange(LAMBDA t, k : place_column(t, grid_size - 1 - k, bits),
            [grid |-> g, bit_index |-> 0, done |-> FALSE], 0, grid_size - 1)

(***************************************************************************)
(* Painting.                                                               *)
(***************************************************************************)
\* module_color with the two fills exchanged
module_color_exchanged(v) == IF v = 1 THEN "white" ELSE "black"

module_color(v) == IF v = 1 THEN "black" ELSE "white"

used_cells == 0

\* math.floor(origin - (grid_size * U) // 2)
grid_start(origin, u) == origin - ((grid_size * u) \div 2)

\* the body of the painting loops at module k = y * grid_size + x: color is
\* assigned or left as it was, then the module's rectangle is filled with it
paint_module(st, k, g, bits) ==
  LET x == k % grid_size
      y == k \div grid_size
      color == IF <<x, y>> \notin reserved_modules
               THEN IF used_cells < Len(bits)
                    THEN module_color(g[y + 1][x + 1]) ELSE st.color
               ELSE module_color(g[y + 1][x + 1])
  IN  [cells |-> Append(st.cells, color), color |-> color]

\* the fill of every module's rectangle, cells[y * grid_size + x + 1]
paint_grid(g, bits) ==
  FoldRange(LAMBDA t, k : paint_module(t, k, g, bits),
            [cells |-> <<>>, color |-> "unbound"],
            0, grid_size * grid_size - 1).cells

\* a rectangle [x0, y0, x1, y1] with x1 < x0: drawn as nothing by one Pillow,
\* ValueError in another
rectangle_degenerate(u) == u - 1 < 0

grid_size_for_start == 36

\* math.floor(origin - (grid_size_for_start * U) // 2 - U / 2)
full_grid_start(origin, u) ==
  (2 * (origin - ((grid_size_for_start * u) \div 2)) - u) \div 2

cell_pairs ==
  << <<15,32, 21,4>>, <<16,32, 20,4>>, <<17,32, 19,4>>,
     <<18,32, 18,4>>, <<19,32, 17,4>>, <<20,32, 16,4>>,
     <<21,32, 15,4>>, <<14,31, 22,5>>, <<15,31, 21,5>>,
     <<16,31, 20,5>>, <<17,31, 19,5>>, <<18,31, 18,5>>,
     <<19,31, 17,5>>, <<20,31, 16,5>>, <<21,31, 15,5>>,
     <<22,31, 14,5>>, <<17,30, 19,6>>, <<18,30, 18,6>>,
     <<19,30, 17,6>>, <<4,15, 32,21>>, <<4,16, 32,20>>,
     <<4,17, 32,19>>, <<4,18, 32,18>>, <<4,19, 32,17>>,
     <<4,20, 32,16>>, <<4,21, 32,15>>, <<5,14, 31,22>>,
     <<5,15, 31,21>>, <<5,16, 31,20>>, <<5,17, 31,19>>,
     <<5,18, 31,18>>, <<5,19, 31,17>>, <<5,20, 31,16>>,
     <<5,21, 31,15>>, <<5,22, 31,14>>, <<6,17, 30,19>>,
     <<6,18, 30,18>>, <<6,19, 30,17>> >>

\* the pairs painted, in order: pair i is painted while i < len(id_encoded_bits)
fill_reserved_area(bits) ==
  LET n == IF Len(bits) < Len(cell_pairs) THEN Len(bits) ELSE Len(cell_pairs)
  IN  AsSeq([i \in 1..n |->
        [primary |-> <<cell_pairs[i][1], cell_pairs[i][2]>>,
         mirror  |-> <<cell_pairs[i][3], cell_pairs[i][4]>>,
         color   |-> IF bits[i] = "1" THEN "black" ELSE "white"]])

(***************************************************************************)
(* The colours beneath the reserved area.  A point is twice the offset of  *)
(* a pixel index from (origin_x, origin_y), so that grid_half_size is an   *)
(* integer.  A shape of ImageDraw covers the pixels whose index lies       *)
(* inside its outline; a pixel within half a pixel of the outline is       *)
(* covered or not as the rasterizer rounds, so coverage is a set of        *)
(* booleans and a colour a set of colours.                                 *)
(***************************************************************************)
\* twice the spike tips, relative to the origin
spike_coordinates(u) ==
  LET r == 2 * outer_annulus_outer_radius(u)
  IN  << <<r, -r>>, <<-r, -r>>, <<-r, r>>, <<r, r>> >>

\* twice grid_half_size
grid_half_size(u) == grid_size * u

\* twice the middle points of the grid borders, relative to the origin
border_middle_points(u) ==
  << <<grid_half_size(u), 0>>, <<0, -grid_half_size(u)>>,
     <<-grid_half_size(u), 0>>, <<0, grid_half_size(u)>> >>

\* the polygon of spike i = 0..3: the tip, point1 and point2
polygon_points(u, i) ==
  << spike_coordinates(u)[i + 1], border_middle_points(u)[i + 1],
     border_middle_points(u)[((i + 1) % 4) + 1] >>

\* (b - a) x (p - a)
Cross(a, b, p) == (b[1] - a[1]) * (p[2] - a[2]) - (b[2] - a[2]) * (p[1] - a[1])

\* p lies at least half a pixel to the left (s = 1) or right (s = -1) of
\* a->b: |cross| >= |b - a|, as c >= ceil(|b - a|^2 / c) for c = |cross|
Beyond(a, b, p, s) ==
  LET c == s * Cross(a, b, p)
      l == (b[1] - a[1]) * (b[1] - a[1]) + (b[2] - a[2]) * (b[2] - a[2])
  IN  c > 0 /\ c >= (l + c - 1) \div c

\* draw.polygon(t, fill): whether the pixel at p is filled
polygon_covers(t, p) ==
  LET s == IF Cross(t[1], t[2], t[3]) > 0 THEN 1 ELSE -1
  IN  IF Beyond(t[1], t[2], p, s) /\ Beyond(t[2], t[3], p, s) /\ Beyond(t[3], t[1], p, s)
      THEN {TRUE}
      ELSE IF Beyond(t[1], t[2], p, -s) \/ Beyond(t[2], t[3], p, -s)
                \/ Beyond(t[3], t[1], p, -s)
      THEN {FALSE}
      ELSE BOOLEAN

\* draw.ellipse of radius r > 0 about the origin: whether the pixel at p is filled
ellipse_covers(r, p) ==
  LET d == p[1] * p[1] + p[2] * p[2]
  IN  IF d <= (2 * r - 1) * (2 * r - 1) THEN {TRUE}
      ELSE IF d >= (2 * r + 1) * (2 * r + 1) THEN {FALSE}
      ELSE BOOLEAN

\* the quadrants (indices of quadrants) whose pieslice reaches the pixel at
\* p: angles run clockwise from 3 o'clock, y grows downwards
pieslice_quadrants(p) ==
  { q \in 1..4 :
      /\ (q \in {1, 4} => p[1] >= -1) /\ (q \in {2, 3} => p[1] <= 1)
      /\ (q \in {1, 2} => p[2] >= -1) /\ (q \in {3, 4} => p[2] <= 1) }

\* the colours the pixel at p can have in the region saved at lines 121-133:
\* inside the two white disks, black where a spike covers it
saved_colors(u, p) ==
  (IF \E i \in 0..3 : TRUE \in polygon_covers(polygon_points(u, i), p)
   THEN {"black"} ELSE {})
  \cup (IF \A i \in 0..3 : FALSE \in polygon_covers(polygon_points(u, i), p)
        THEN {"white"} ELSE {})

\* the colours the pixel at p can have outside the region pasted back:
\* the quadrant's inner pieslice, its middle pieslice, the black ring, or
\* the background with its spikes
annulus_colors(u, p) ==
  UNION { IF TRUE \in ellipse_covers(inner_annulus_outer_radius(u), p)
          THEN { IF quadrants[q][4] = 1 THEN "black" ELSE "white" }
          ELSE {} : q \in pieslice_quadrants(p) }
  \cup UNION { IF FALSE \in ellipse_covers(inner_annulus_outer_radius(u), p)
                  /\ TRUE \in ellipse_covers(middle_annulus_outer_radius(u), p)
               THEN { IF quadrants[q][3] = 1 THEN "black" ELSE "white" }
               ELSE {} : q \in pieslice_quadrants(p) }
  \cup (IF FALSE \in ellipse_covers(middle_annulus_outer_radius(u), p)
           /\ TRUE \in ellipse_covers(outer_annulus_outer_radius(u), p)
        THEN {"black"} ELSE {})
  \cup (IF FALSE \in ellipse_covers(outer_annulus_outer_radius(u), p)
        THEN saved_colors(u, p) ELSE {})

\* the colours the pixel at p can have after line 175
canvas_colors(u, p) ==
  (IF TRUE \in ellipse_covers(inner_annulus_inner_radius(u), p)
   THEN saved_colors(u, p) ELSE {})
  \cup (IF FALSE \in ellipse_covers(inner_annulus_inner_radius(u), p)
        THEN annulus_colors(u, p) ELSE {})

\* the pixel indices at the centre of cell c of the 36x36 grid, along one
\* axis: one pixel for an odd U, the two around the centre for an even U
centre_pixels(u, c) ==
  LET first == full_grid_start(outer_annulus_outer_radius(u), u) + c * u
  IN  IF u % 2 = 1 THEN { first + (u - 1) \div 2 }
      ELSE { first + (u \div 2) - 1, first + (u \div 2) }

\* the pixel at index (px, py) belongs to the 21x21 grid
in_grid(u, px, py) ==
  LET g == grid_start(outer_annulus_outer_radius(u), u)
  IN  px >= g /\ px <= g + grid_size * u - 1 /\ py >= g /\ py <= g + grid_size * u - 1

(***************************************************************************)
(* The state.  A call of create_fiducial_marker has the variables of       *)
(* call_vars; returned is the list of the calls that have returned.  The   *)
(* generator application (GP-Tag_Generator_Mobile.py) has the variables of *)
(* generator_vars: its attributes, the texts of the input fields that its  *)
(* handlers read or write, the callbacks that the Kivy Clock holds for it, *)
(* the GPS service and the files it has written.  The detector             *)
(* application (mobile_detector.py) has the variables of detector_vars:    *)
(* its camera (None before build), last_process_time, the time of the      *)
(* Kivy Clock in milliseconds, and the times of the last two calls of      *)
(* detector.detect.                                                        *)
(* Texts are sequences of characters; None is the empty sequence, or 0     *)
(* for a Clock event.                                                      *)
(***************************************************************************)
VARIABLES pc, args, U, img, grid, raised, gf_tables, main_gen, main_data_bits,
          main_data_bytes_array, main_encoded_data, encoded_bits,
          id_encoded_data, id_encoded_bits, bit_index,
          cells, reserved_cells, result

VARIABLES returned

VARIABLES sensors_enabled, sensor_update_event, tag_image, current_tag_path,
          latitude_input, longitude_input, roll_input, tag_id_input,
          clock_intervals, clock_once, gps_started, files

VARIABLES capture, last_process_time, clock_time, detect_calls

call_vars == <<pc, args, U, img, grid, raised, gf_tables, main_gen, main_data_bits,
               main_data_bytes_array, main_encoded_data, encoded_bits,
               id_encoded_data, id_encoded_bits, bit_index,
               cells, reserved_cells, result>>

generator_vars == <<sensors_enabled, sensor_update_event, tag_image, current_tag_path,
                    latitude_input, longitude_input, roll_input, tag_id_input,
                    clock_intervals, clock_once, gps_started, files>>

detector_vars == <<capture, last_process_time, clock_time, detect_calls>>

vars == <<call_vars, returned, generator_vars, detector_vars>>

\* lines 147-159: the default texts of the input fields
DefaultTexts ==
  [latitude  |-> <<"6", "3", ".", "8", "2", "0", "3", "8", "9", "4">>,
   longitude |-> <<"2", "0", ".", "3", "0", "5", "8", "8", "4", "7">>,
   roll      |-> <<"0">>,
   tag_id    |-> <<"1", "2", "3">>]

\* GPTagGeneratorApp after __init__ and build: sensors off, nothing
\* scheduled, no tag image, the fields at their default texts
generator_built ==
  /\ sensors_enabled = FALSE
  /\ sensor_update_event = 0
  /\ tag_image = <<>>
  /\ current_tag_path = <<>>
  /\ latitude_input = DefaultTexts.latitude
  /\ longitude_input = DefaultTexts.longitude
  /\ roll_input = DefaultTexts.roll
  /\ tag_id_input = DefaultTexts.tag_id
  /\ clock_intervals = {}
  /\ clock_once = <<>>
  /\ gps_started = FALSE
  /\ files = <<>>

(***************************************************************************)
(* The state machine: one call of create_fiducial_marker.                  *)
(***************************************************************************)
Init ==
  /\ pc = "canvas"
  /\ args \in Inputs
  /\ U \in UValues
  /\ img = NoImage
  /\ grid = <<>>
  /\ raised = ""
  /\ gf_tables = NoTables
  /\ main_gen = <<>>
  /\ main_data_bits = <<>>
  /\ main_data_bytes_array = <<>>
  /\ main_encoded_data = <<>>
  /\ encoded_bits = <<>>
  /\ id_encoded_data = <<>>
  /\ id_encoded_bits = <<>>
  /\ bit_index = 0
  /\ cells = <<>>
  /\ reserved_cells = <<>>
  /\ result = "running"
  /\ returned = <<>>
  /\ generator_built
  /\ capture = "None"
  /\ last_process_time = 0
  /\ clock_time = 0
  /\ detect_calls = <<>>

\* lines 49-175: the image is created and the annuli, spikes and quadrants drawn
Canvas ==
  /\ pc = "canvas"
  /\ IF image_new_raises(U)
     THEN /\ img' = img
          /\ pc' = "done"
          /\ result' = "ValueError"
     ELSE /\ img' = canvas(U)
          /\ pc' = "grid"
          /\ result' = result
  /\ UNCHANGED <<args, U, grid, raised, gf_tables, main_gen, main_data_bits, main_data_bytes_array,
                 main_encoded_data, encoded_bits, id_encoded_data, id_encoded_bits, bit_index, cells, reserved_cells>>
  /\ UNCHANGED <<returned, generator_vars, detector_vars>>

\* lines 177-199: the grid with its finder and timing patterns
GridInit ==
  /\ pc = "grid"
  /\ grid' = initial_grid
  /\ pc' = "encode"
  /\ UNCHANGED <<args, U, img, raised, gf_tables, main_gen, main_data_bits, main_data_bytes_array,
                 main_encoded_data, encoded_bits, id_encoded_data, id_encoded_bits, bit_index, cells, reserved_cells, result>>
  /\ UNCHANGED <<returned, generator_vars, detector_vars>>

\* lines 201-239: the try block.  RSCodec(nsym) runs init_tables and builds
\* the generator polynomial of nsym roots.  ValueError is caught and None
\* returned; any other exception leaves the function
Encode ==
  /\ pc = "encode"
  /\ main_data_bits' = pack_main(args)
  /\ main_data_bytes_array' =
       IF main_error(main_data_bits') = ""
       THEN bits_to_bytes(main_data_bits', main_data_bytes(main_data_bits')).b
       ELSE <<>>
  /\ raised' = IF main_data_bytes_array' = <<>> THEN main_error(main_data_bits')
               ELSE reserved_error(args)
  /\ gf_tables' = IF main_data_bytes_array' # <<>> THEN init_tables ELSE gf_tables
  /\ main_gen' =
       IF main_data_bytes_array' # <<>>
       THEN rs_generator_poly(gf_tables', main_ecc_bytes(main_data_bits'))
       ELSE <<>>
  /\ main_encoded_data' =
       IF main_data_bytes_array' # <<>>
       THEN rs_encode_msg(gf_tables', main_data_bytes_array',
                          main_ecc_bytes(main_data_bits'), main_gen')
       ELSE <<>>
  /\ encoded_bits' = BytesToBits(main_encoded_data')
  /\ id_encoded_data' =
       IF raised' = ""
       THEN rs_encode_msg(gf_tables', bits_to_bytes(pack_reserved(args).s, 2).b, 1,
                          rs_generator_poly(gf_tables', 1))
       ELSE <<>>
  /\ id_encoded_bits' = BytesToBits(id_encoded_data')
  /\ pc' = IF raised' = "" THEN "place" ELSE "done"
  /\ result' = IF raised' = "" THEN result
               ELSE IF raised' = "ValueError" THEN "None" ELSE raised'
  /\ UNCHANGED <<args, U, img, grid, bit_index, cells, reserved_cells>>
  /\ UNCHANGED <<returned, generator_vars, detector_vars>>

\* lines 241-259: the payload traversal
Place ==
  /\ pc = "place"
  /\ LET t == place_bits(grid, encoded_bits)
     IN  /\ grid' = t.grid
         /\ bit_index' = t.bit_index
  /\ pc' = "paint"
  /\ UNCHANGED <<args, U, img, raised, gf_tables, main_gen, main_data_bits, main_data_bytes_array,
                 main_encoded_data, encoded_bits, id_encoded_data, id_encoded_bits, cells, reserved_cells, result>>
  /\ UNCHANGED <<returned, generator_vars, detector_vars>>

\* lines 261-284: every module's rectangle is filled
PaintGrid ==
  /\ pc = "paint"
  /\ cells' = paint_grid(grid, encoded_bits)
  /\ pc' = "reserved"
  /\ UNCHANGED <<args, U, img, grid, raised, gf_tables, main_gen, main_data_bits, main_data_bytes_array,
                 main_encoded_data, encoded_bits, id_encoded_data, id_encoded_bits, bit_index, reserved_cells, result>>
  /\ UNCHANGED <<returned, generator_vars, detector_vars>>

\* lines 279-284 where draw.rectangle rejects x1 < x0
PaintGridRaises ==
  /\ pc = "paint"
  /\ rectangle_degenerate(U)
  /\ pc' = "done"
  /\ result' = "ValueError"
  /\ UNCHANGED <<args, U, img, grid, raised, gf_tables, main_gen, main_data_bits, main_data_bytes_array,
                 main_encoded_data, encoded_bits, id_encoded_data, id_encoded_bits, bit_index, cells, reserved_cells>>
  /\ UNCHANGED <<returned, generator_vars, detector_vars>>

\* lines 286-293: fill_reserved_area, and the image is returned
FillReserved ==
  /\ pc = "reserved"
  /\ reserved_cells' = fill_reserved_area(id_encoded_bits)
  /\ pc' = "done"
  /\ result' = "image"
  /\ UNCHANGED <<args, U, img, grid, raised, gf_tables, main_gen, main_data_bits, main_data_bytes_array,
                 main_encoded_data, encoded_bits, id_encoded_data, id_encoded_bits, bit_index, cells>>
  /\ UNCHANGED <<returned, generator_vars, detector_vars>>

Next ==
  \/ Canvas
  \/ GridInit
  \/ Encode
  \/ Place
  \/ PaintGrid
  \/ PaintGridRaises
  \/ FillReserved

Spec == Init /\ [][Next]_vars

(***************************************************************************)
(* Several calls of create_fiducial_marker, one after another.  Every call *)
(* has its own frame of locals; the tables of the reedsolo module, which   *)
(* RSCodec rebuilds, are the one thing a call leaves behind.               *)
(***************************************************************************)
MaxCalls == 3

\* the parameters of the calls: arguments that give an image (two) or None,
\* and a module size for which an image is made or Image.new raises
CallParameters ==
  {Typical, AllMaximum, [Typical EXCEPT !.version_id = Lit(-1)]} \X {-1, 1}

\* the frame of the call in progress: its parameters and every local
frame ==
  [args |-> args, U |-> U, result |-> result, raised |-> raised, img |-> img,
   grid |-> grid, main_gen |-> main_gen, main_data_bits |-> main_data_bits,
   main_data_bytes_array |-> main_data_bytes_array,
   main_encoded_data |-> main_encoded_data, encoded_bits |-> encoded_bits,
   id_encoded_data |-> id_encoded_data, id_encoded_bits |-> id_encoded_bits,
   bit_index |-> bit_index, cells |-> cells, reserved_cells |-> reserved_cells]

\* a call begins with the image of the call before it, the modules painted
\* on it included
new_frame_on_old_image(a, u) ==
  /\ pc' = "canvas"
  /\ args' = a
  /\ U' = u
  /\ img' = img
  /\ grid' = <<>>
  /\ raised' = ""
  /\ main_gen' = <<>>
  /\ main_data_bits' = <<>>
  /\ main_data_bytes_array' = <<>>
  /\ main_encoded_data' = <<>>
  /\ encoded_bits' = <<>>
  /\ id_encoded_data' = <<>>
  /\ id_encoded_bits' = <<>>
  /\ bit_index' = 0
  /\ cells' = cells
  /\ reserved_cells' = reserved_cells
  /\ result' = "running"

\* line 30: a call begins with parameters a, u and no local assigned
new_frame(a, u) ==
  /\ pc' = "canvas"
  /\ args' = a
  /\ U' = u
  /\ img' = NoImage
  /\ grid' = <<>>
  /\ raised' = ""
  /\ main_gen' = <<>>
  /\ main_data_bits' = <<>>
  /\ main_data_bytes_array' = <<>>
  /\ main_encoded_data' = <<>>
  /\ encoded_bits' = <<>>
  /\ id_encoded_data' = <<>>
  /\ id_encoded_bits' = <<>>
  /\ bit_index' = 0
  /\ cells' = <<>>
  /\ reserved_cells' = <<>>
  /\ result' = "running"

\* the call in progress returns or raises, and the next call is made
Return ==
  /\ pc = "done"
  /\ Len(returned) < MaxCalls
  /\ returned' = Append(returned, frame)
  /\ \E p \in CallParameters : new_frame(p[1], p[2])
  /\ UNCHANGED <<gf_tables, generator_vars, detector_vars>>

CallsInit ==
  /\ Init
  /\ <<args, U>> \in CallParameters

\* the steps of the calls.  Whether draw.rectangle raises for a module size
\* of 0 depends on the Pillow installed, the same for every call of a
\* process; the calls here have module sizes for which it does not arise
CallsNext ==
  \/ Canvas
  \/ GridInit
  \/ Encode
  \/ Place
  \/ PaintGrid
  \/ FillReserved
  \/ Return

CallsSpec == CallsInit /\ [][CallsNext]_vars

(***************************************************************************)
(* Python texts of decimal digits: str, int and float.                     *)
(***************************************************************************)
DigitChars == <<"0", "1", "2", "3", "4", "5", "6", "7", "8", "9">>

\* the natural written by a text of decimal digits
RECURSIVE DecValue(_)
DecValue(s) ==
  IF s = <<>> THEN 0
  ELSE 10 * DecValue(SubSeq(s, 1, Len(s) - 1))
         + (CHOOSE d \in 0..9 : DigitChars[d + 1] = s[Len(s)])

\* the decimal digits of a natural
RECURSIVE DecDigits(_)
DecDigits(n) ==
  IF n < 10 THEN <<DigitChars[n + 1]>>
  ELSE DecDigits(n \div 10) \o <<DigitChars[(n % 10) + 1]>>

\* int(t): an optional sign, then one or more decimal digits
PyIntText(t) ==
  LET neg == t # <<>> /\ t[1] = "-"
      d   == IF neg THEN Tail(t) ELSE t
  IN  IF d = <<>> \/ (\E i \in 1..Len(d) : \A k \in 1..10 : DigitChars[k] # d[i]) THEN [err |-> "ValueError", v |-> Lit(0)]
      ELSE [err |-> "", v |-> Lit(IF neg THEN -DecValue(d) ELSE DecValue(d))]

\* a text of digits without its trailing zeros
RECURSIVE StripZeros(_)
StripZeros(s) ==
  IF s # <<>> /\ s[Len(s)] = "0" THEN StripZeros(SubSeq(s, 1, Len(s) - 1)) ELSE s

\* float(t): an optional sign, digits, and optionally a point and digits; the
\* binary64 value nearest to the decimal written (the digits before the
\* point and the significant ones after it, over a power of ten)
PyFloatText(t) ==
  LET neg  == t # <<>> /\ t[1] = "-"
      d    == IF neg THEN Tail(t) ELSE t
      dots == { i \in 1..Len(d) : d[i] = "." }
      dot  == IF dots = {} THEN Len(d) + 1 ELSE CHOOSE i \in dots : TRUE
      ip   == SubSeq(d, 1, dot - 1)
      fp   == SubSeq(d, dot + 1, Len(d))
      sp   == StripZeros(fp)
      n    == DecValue(ip \o sp)
  IN  IF Cardinality(dots) > 1 \/ ip \o fp = <<>> \/ (\E i \in 1..Len(ip \o fp) : \A k \in 1..10 : DigitChars[k] # (ip \o fp)[i])
      THEN [err |-> "ValueError", v |-> Lit(0)]
      ELSE [err |-> "",
            v   |-> IF sp = <<>> THEN PyFloat(Lit(IF neg THEN -n ELSE n))
                    ELSE PyTrueDiv(PyFloat(Lit(IF neg THEN -n ELSE n)), PyFloat(Lit(10^Len(sp))))]

\* str(v) of a float whose value is a whole number or a whole number and a
\* half, below 2**15
PyStrFloat(v) ==
  LET sign  == IF v.neg THEN <<"-">> ELSE <<>>
      twice == PyInt(PyMul(v, Lit(2))).m
      mag   == IF twice = <<>> THEN 0 ELSE twice[1]
  IN  sign \o DecDigits(mag \div 2) \o <<".", IF mag % 2 = 1 THEN "5" ELSE "0">>

(***************************************************************************)
(* The generator application: GPTagGeneratorApp.                           *)
(***************************************************************************)
\* the number of update_fields callbacks the Clock holds at a time
MaxPending == 1

\* lines 53-84, for a tag that lies flat: every half angle is 0, its cosine
\* 1.0 and its sine 0.0
euler_to_quaternion(roll, pitch, yaw) ==
  << PyFloat(Lit(0)), PyFloat(Lit(0)), PyFloat(Lit(0)), PyFloat(Lit(1)) >>

\* lines 355-359: the marker create_fiducial_marker returns for arguments a
\* that are in range everywhere but possibly in tag_id: the arguments it
\* encodes and the reserved bits, or None (the empty sequence) when the
\* reserved payload raises
fiducial_marker(a) ==
  IF reserved_error(a) # "" THEN <<>>
  ELSE << [args |-> a, id_bits |-> pack_reserved(a).s] >>

\* lines 335-362, with the fields that no handler writes at their defaults:
\* altitude 45.16, pitch and yaw 0, scale 36 / 100.0 = 0.36, accuracy 2,
\* version 3
create_tag_image ==
  LET latitude  == PyFloatText(latitude_input)
      longitude == PyFloatText(longitude_input)
      roll      == PyFloatText(roll_input)
      tag_id    == PyIntText(tag_id_input)
  IN  IF latitude.err # "" \/ longitude.err # "" \/ roll.err # "" \/ tag_id.err # ""
      THEN <<>>
      ELSE fiducial_marker(
             [latitude |-> latitude.v, longitude |-> longitude.v, altitude |-> F_45_16,
              quaternion |-> euler_to_quaternion(roll.v, Lit(0), Lit(0)),
              scale |-> F_0_36, accuracy |-> Lit(2),
              tag_id |-> tag_id.v, version_id |-> Lit(3)])

\* the user types a text into the latitude or the tag id field: -12, or
\* 123, 456 or 12x
EditField ==
  /\ \/ /\ latitude_input' = <<"-", "1", "2">>
        /\ tag_id_input' = tag_id_input
     \/ /\ tag_id_input' \in { <<"1", "2", "3">>, <<"4", "5", "6">>, <<"1", "2", "x">> }
        /\ latitude_input' = latitude_input
  /\ UNCHANGED <<sensors_enabled, sensor_update_event, tag_image, current_tag_path,
                 longitude_input, roll_input, clock_intervals, clock_once, gps_started, files>>
  /\ UNCHANGED <<call_vars, returned, detector_vars>>

\* toggle_sensors with the orientation update scheduled inside the try
\* block, so that it is skipped when gps.start raises
toggle_sensors_schedule_in_try ==
  /\ sensors_enabled' = ~sensors_enabled
  /\ IF sensors_enabled'
     THEN \/ /\ gps_started' = TRUE
             /\ \E e \in 1..(Cardinality(clock_intervals) + 1) :
                  /\ e \notin clock_intervals
                  /\ sensor_update_event' = e
                  /\ clock_intervals' = clock_intervals \cup {e}
          \/ UNCHANGED <<gps_started, clock_intervals, sensor_update_event>>
     ELSE /\ gps_started' \in {FALSE, gps_started}
          /\ IF sensor_update_event # 0
             THEN /\ clock_intervals' = clock_intervals \ {sensor_update_event}
                  /\ sensor_update_event' = 0
             ELSE UNCHANGED <<clock_intervals, sensor_update_event>>
  /\ UNCHANGED <<tag_image, current_tag_path, latitude_input, longitude_input, roll_input,
                 tag_id_input, clock_once, files>>
  /\ UNCHANGED <<call_vars, returned, detector_vars>>

\* lines 254-281; gps.start and gps.stop succeed or raise
toggle_sensors ==
  /\ sensors_enabled' = ~sensors_enabled
  /\ IF sensors_enabled'
     THEN /\ gps_started' \in {TRUE, gps_started}
          /\ \E e \in 1..(Cardinality(clock_intervals) + 1) :
               /\ e \notin clock_intervals
               /\ sensor_update_event' = e
               /\ clock_intervals' = clock_intervals \cup {e}
     ELSE /\ gps_started' \in {FALSE, gps_started}
          /\ IF sensor_update_event # 0
             THEN /\ clock_intervals' = clock_intervals \ {sensor_update_event}
                  /\ sensor_update_event' = 0
             ELSE UNCHANGED <<clock_intervals, sensor_update_event>>
  /\ UNCHANGED <<tag_image, current_tag_path, latitude_input, longitude_input, roll_input,
                 tag_id_input, clock_once, files>>
  /\ UNCHANGED <<call_vars, returned, detector_vars>>

\* lines 283-297: the GPS service, while started, reports a location, its
\* keyword arguments with lat and lon (59.0, 18.0) or without them;
\* update_fields is handed to the Clock with the location it closes over
on_gps_location ==
  /\ gps_started
  /\ Len(clock_once) < MaxPending
  /\ \E kwargs \in { [lat |-> PyFloat(Lit(59)), lon |-> PyFloat(Lit(18)), speed |-> PyFloat(Lit(0))],
                      [speed |-> PyFloat(Lit(0))] } :
       clock_once' = IF ~sensors_enabled THEN clock_once ELSE Append(clock_once, kwargs)
  /\ UNCHANGED <<sensors_enabled, sensor_update_event, tag_image, current_tag_path,
                 latitude_input, longitude_input, roll_input, tag_id_input,
                 clock_intervals, gps_started, files>>
  /\ UNCHANGED <<call_vars, returned, detector_vars>>

\* lines 291-295: the Clock runs the oldest update_fields it holds
update_fields ==
  /\ clock_once # <<>>
  /\ LET kwargs == Head(clock_once)
     IN  IF "lat" \in DOMAIN kwargs /\ "lon" \in DOMAIN kwargs
         THEN /\ latitude_input' = PyStrFloat(kwargs.lat)
              /\ longitude_input' = PyStrFloat(kwargs.lon)
         ELSE UNCHANGED <<latitude_input, longitude_input>>
  /\ clock_once' = Tail(clock_once)
  /\ UNCHANGED <<sensors_enabled, sensor_update_event, tag_image, current_tag_path,
                 roll_input, tag_id_input, clock_intervals, gps_started, files>>
  /\ UNCHANGED <<call_vars, returned, detector_vars>>

\* lines 299-333: the Clock runs a live update_orientation event; the device
\* lies flat (roll 0.0, written as 0.000) or the gravity sensor has no data
update_orientation ==
  /\ clock_intervals # {}
  /\ IF ~sensors_enabled THEN roll_input' = roll_input
     ELSE \E g_data \in BOOLEAN :
            roll_input' = IF g_data THEN <<"0", ".", "0", "0", "0">> ELSE roll_input
  /\ UNCHANGED <<sensors_enabled, sensor_update_event, tag_image, current_tag_path,
                 latitude_input, longitude_input, tag_id_input,
                 clock_intervals, clock_once, gps_started, files>>
  /\ UNCHANGED <<call_vars, returned, detector_vars>>

\* lines 364-378
generate_tag ==
  /\ tag_image' = create_tag_image
  /\ tag_image' # <<>>
  /\ UNCHANGED <<sensors_enabled, sensor_update_event, current_tag_path,
                 latitude_input, longitude_input, roll_input, tag_id_input,
                 clock_intervals, clock_once, gps_started, files>>
  /\ UNCHANGED <<call_vars, returned, detector_vars>>

\* line 389: f"gptag_{text}.png"
tag_file_name(text) == <<"g", "p", "t", "a", "g", "_">> \o text \o <<".", "p", "n", "g">>

\* lines 380-395: the image kept from an earlier generate_tag or save_tag is
\* the one written; Image.save succeeds or raises
save_tag ==
  /\ tag_image' = IF tag_image = <<>> THEN create_tag_image ELSE tag_image
  /\ IF tag_image' = <<>>
     THEN UNCHANGED <<files, current_tag_path>>
     ELSE \/ /\ files' = << [name |-> tag_file_name(tag_id_input), image |-> tag_image'[1]] >>
             /\ current_tag_path' = tag_file_name(tag_id_input)
          \/ UNCHANGED <<files, current_tag_path>>
  /\ UNCHANGED <<sensors_enabled, sensor_update_event,
                 latitude_input, longitude_input, roll_input, tag_id_input,
                 clock_intervals, clock_once, gps_started>>
  /\ UNCHANGED <<call_vars, returned, detector_vars>>

\* an application starts: no call of create_fiducial_marker is in progress
AppInit ==
  /\ Init
  /\ args = Typical
  /\ U = 1

GeneratorNext ==
  \/ EditField
  \/ toggle_sensors
  \/ on_gps_location
  \/ update_fields
  \/ update_orientation
  \/ generate_tag
  \/ save_tag

GeneratorSpec == AppInit /\ [][GeneratorNext]_vars

(***************************************************************************)
(* The detector application: TagDetectorApp.  Times are in milliseconds.   *)
(***************************************************************************)
\* line 107: process_interval = 1.0 s
process_interval == 1000

\* line 117: update is scheduled every 1.0 / 30.0 s
frame_interval == 33

\* the Clock time up to which frames are followed
MaxTime == 2200

\* lines 73-119, at once or 700 ms after the Clock started; the camera
\* opens or does not
build ==
  /\ capture = "None"
  /\ \E t0 \in {0, 700} : clock_time' = clock_time + t0
  /\ capture' \in {"opened", "failed"}
  /\ last_process_time' = 0
  /\ UNCHANGED detect_calls
  /\ UNCHANGED <<call_vars, returned, generator_vars>>

\* lines 121-204: the Clock calls update one frame, or fifteen frames, after
\* the call before; capture.read gives a frame (ret) or none; detect finds a
\* tag (detection) or none
update ==
  /\ capture # "None"
  /\ \E dt \in {frame_interval, 15 * frame_interval}, ret \in BOOLEAN, detection \in BOOLEAN :
       /\ clock_time + dt <= MaxTime
       /\ clock_time' = clock_time + dt
       /\ ret => capture = "opened"
       /\ IF ret /\ clock_time' - last_process_time > process_interval
          THEN /\ detect_calls' = IF detect_calls = <<>> THEN <<clock_time'>>
                                  ELSE <<detect_calls[Len(detect_calls)], clock_time'>>
               /\ last_process_time' = IF detection THEN clock_time' ELSE last_process_time
          ELSE UNCHANGED <<detect_calls, last_process_time>>
  /\ UNCHANGED capture
  /\ UNCHANGED <<call_vars, returned, generator_vars>>

DetectorNext ==
  \/ build
  \/ update

DetectorSpec == AppInit /\ [][DetectorNext]_vars

(***************************************************************************)
(* Properties of create_fiducial_marker.                                   *)
(***************************************************************************)
\* -1, 0, 1 as a < b, a = b, a > b for two Python numbers
PyCmp(a, b) ==
  LET d == PyAdd(a, [b EXCEPT !.neg = ~b.neg /\ b.m # <<>>])
  IN  IF d.m = <<>> THEN 0 ELSE IF d.neg THEN -1 ELSE 1

InRange(v, lo, hi) == PyCmp(v, Lit(lo)) >= 0 /\ PyCmp(v, Lit(hi)) <= 0

\* every field lies in its declared range: latitude -90..90, longitude
\* -180..180, altitude -10000..10000, quaternion components -1..1, scale
\* 0..3.6, accuracy 0..3, tag_id 0..4095, version_id 0..15
FieldsInRange(p) ==
  /\ InRange(p.latitude, -90, 90)
  /\ InRange(p.longitude, -180, 180)
  /\ InRange(p.altitude, -10000, 10000)
  /\ \A i \in 1..4 : InRange(p.quaternion[i], -1, 1)
  /\ PyCmp(p.scale, Lit(0)) >= 0 /\ PyCmp(p.scale, F_3_6) <= 0
  /\ ~p.accuracy.fl /\ InRange(p.accuracy, 0, 3)
  /\ ~p.tag_id.fl /\ InRange(p.tag_id, 0, 4095)
  /\ ~p.version_id.fl /\ InRange(p.version_id, 0, 15)

\* the try block has been left, with or without an exception
EncodeDone == pc \in {"place", "paint", "reserved"} \/ (pc = "done" /\ U >= 0)

\* the payload traversal has been run
PlaceDone == pc \in {"paint", "reserved"} \/ result = "image"

Bit(c) == IF c = "1" THEN 1 ELSE 0

\* module (x, y) lies in one of the four 5x5 corner blocks
InFinder(x, y) == (x < 5 \/ x > 15) /\ (y < 5 \/ y > 15)

\* every module, columns x = 20 down to 0 and rows y = 20 down to 0 in each
ColumnMajorDown ==
  AsSeq([i \in 1..(21 * 21) |-> <<20 - ((i - 1) \div 21), 20 - ((i - 1) % 21)>>])

\* the modules the payload goes to, in the order of the traversal
TraversalOrder ==
  SelectSeq(ColumnMajorDown,
            LAMBDA m : m[1] # 6 /\ m[1] # 5 /\ m[2] # 5 /\ ~InFinder(m[1], m[2]))

\* C1: after the traversal the k-th bit of the main ECC-coded bit string is
\* the value of the k-th non-reserved module in the order x = 20..0 without
\* x = 6, y = 20..0; there are exactly 280 such modules, a 280-bit string is
\* placed whole, and the non-reserved modules of column 6 receive no bit.
C1_TraversalOrder ==
  PlaceDone =>
    /\ Len(TraversalOrder) = 280
    /\ Cardinality({ TraversalOrder[k] : k \in 1..Len(TraversalOrder) }) = 280
    /\ \A k \in 1..Len(TraversalOrder) :
         k <= Len(encoded_bits) =>
           grid[TraversalOrder[k][2] + 1][TraversalOrder[k][1] + 1] = Bit(encoded_bits[k])
    /\ Len(encoded_bits) = 280 => bit_index = 280
    /\ \A y \in 0..20 : y # 5 => grid[y + 1][6 + 1] = 1

\* C1: the traversal has placed the 280 bits of the typical call
C1_Witness ==
  /\ pc = "paint"
  /\ args = Typical
  /\ Len(encoded_bits) = 280
  /\ bit_index = 280

\* C2: the payload traversal, whatever the length of the bit string, leaves
\* the four 5x5 corner blocks equal to the finder pattern and leaves every
\* module with x = 5 or y = 5 at the value it had before the traversal.
C2_ReservedKept ==
  [][ pc = "place" =>
        /\ \A bx \in {0, 16}, by \in {0, 16} :
             \A r \in 1..5, c \in 1..5 : grid'[by + r][bx + c] = pattern[r][c]
        /\ \A x \in 0..20, y \in 0..20 :
             (x = 5 \/ y = 5) => grid'[y + 1][x + 1] = grid[y + 1][x + 1] ]_vars

\* C2: the traversal has run out of modules with bits of a longer string left
C2_Witness ==
  /\ pc = "paint"
  /\ Len(encoded_bits) > 280
  /\ bit_index = 280

\* digits from..from+width-1 of bits are the width-digit binary of v
FieldIs(bits, from, width, v) ==
  /\ ~v.fl /\ ~v.neg
  /\ Len(bits) >= from + width - 1
  /\ IsDigits(SubSeq(bits, from, from + width - 1))
  /\ BFromBitStr(SubSeq(bits, from, from + width - 1)) = v.m

\* C3: with every field in its declared range the main bit string has 178
\* digits: lat (35), lon (36), alt (25), qx, qy, qz, qw (16 each), accuracy
\* (2), scale (16), each the fixed-width binary of the quantized value; the
\* reserved bit string is tag_id (12) then version_id (4), 16 digits, and
\* no exception is raised.
C3_FieldLayout ==
  EncodeDone /\ FieldsInRange(args) =>
    /\ raised = ""
    /\ Len(main_data_bits) = 178
    /\ FieldIs(main_data_bits, 1, 35, lat_value(args.latitude))
    /\ FieldIs(main_data_bits, 36, 36, lon_value(args.longitude))
    /\ FieldIs(main_data_bits, 72, 25, alt_value(args.altitude))
    /\ \A i \in 1..4 :
         FieldIs(main_data_bits, 97 + 16 * (i - 1), 16, quat_value(args.quaternion[i]))
    /\ FieldIs(main_data_bits, 161, 2, args.accuracy)
    /\ FieldIs(main_data_bits, 163, 16, scale_value(args.scale))
    /\ Len(pack_reserved(args).s) = 16
    /\ FieldIs(pack_reserved(args).s, 1, 12, args.tag_id)
    /\ FieldIs(pack_reserved(args).s, 13, 4, args.version_id)
    /\ SubSeq(id_encoded_bits, 1, 16) = pack_reserved(args).s

\* C3: the typical call has left the try block with its 178 digits
C3_Witness ==
  /\ pc = "place"
  /\ args = Typical
  /\ Len(main_data_bits) = 178
  /\ main_data_bits[1] = "1"

C5_CodewordLengths ==
  EncodeDone /\ FieldsInRange(args) =>
    /\ Len(main_data_bytes_array) = 23
    /\ Len(main_gen) = 12 + 1
    /\ Len(main_encoded_data) = 35
    /\ SubSeq(main_encoded_data, 1, 23) = main_data_bytes_array
    /\ Len(encoded_bits) = 280
    /\ Len(id_encoded_data) = 3
    /\ SubSeq(id_encoded_data, 1, 2) = bits_to_bytes(pack_reserved(args).s, 2).b
    /\ Len(id_encoded_bits) = 24

\* C5: a call other than the typical one, every field in range, has been encoded
C5_Witness ==
  /\ pc = "place"
  /\ FieldsInRange(args)
  /\ args # Typical
  /\ Len(encoded_bits) = 280
  /\ Len(id_encoded_bits) = 24

\* C6 as the specification states it: a call with a field outside its
\* declared range, or with U <= 0, ends without an image.
C6_OutOfRangeRejected ==
  pc = "done" /\ (~FieldsInRange(args) \/ U <= 0) => result # "image"

\* C7 as the specification states it: a main ECC-coded bit string of more
\* than 280 digits ends the call without an image.
C7_OverflowRejected ==
  pc = "done" /\ Len(encoded_bits) > 280 => result # "image"

C9_TimingFromOne ==
  grid # <<>> =>
    \A i \in 5..15 :
      /\ grid[5 + 1][i + 1] = IF (i - 5) % 2 = 0 THEN 1 ELSE 0
      /\ grid[i + 1][5 + 1] = IF (i - 5) % 2 = 0 THEN 1 ELSE 0

\* C9: the timing modules on row 5 and on column 5 at indices 5..15
\* alternate 0,1,0,1,... with 0 at index 5: 1 at the even indices, 0 at the
\* odd ones, up to 0 at index 15, before and after the traversal.
C9_TimingFromZero ==
  grid # <<>> =>
    \A i \in 5..15 :
      /\ grid[5 + 1][i + 1] = IF (i - 5) % 2 = 0 THEN 0 ELSE 1
      /\ grid[i + 1][5 + 1] = IF (i - 5) % 2 = 0 THEN 0 ELSE 1

\* C9: the timing modules are set and the traversal has passed over them
C9_Witness ==
  /\ pc = "paint"
  /\ grid[5 + 1][5 + 1] = 0
  /\ grid[5 + 1][6 + 1] = 1
  /\ grid[15 + 1][5 + 1] = 0

\* C10: for U >= 1 the image returned is 36 * U pixels wide and high.
C10_ImageSize ==
  result = "image" /\ U >= 1 => img.size_x = 36 * U /\ img.size_y = 36 * U

\* C10: an image has been returned for a base unit above 1
C10_Witness ==
  /\ result = "image"
  /\ FieldsInRange(args)
  /\ U > 1
  /\ img.size_x = 36 * U

\* the natural 2^n - 1
AllOnes(n) == BFromBitStr(Rep("1", n))

\* C11: with every field at its maximum every quantized field is 2^n - 1
\* for its width n (the 178 and the 16 digits are all 1), and with every
\* field at its minimum every quantized field is 0 (all digits 0).
C11_QuantizerBoundaries ==
  /\ EncodeDone /\ args = AllMaximum =>
       /\ lat_value(args.latitude) = PyIntOf(FALSE, AllOnes(35))
       /\ lon_value(args.longitude) = PyIntOf(FALSE, AllOnes(36))
       /\ alt_value(args.altitude) = PyIntOf(FALSE, AllOnes(25))
       /\ \A i \in 1..4 : quat_value(args.quaternion[i]) = PyIntOf(FALSE, AllOnes(16))
       /\ scale_value(args.scale) = PyIntOf(FALSE, AllOnes(16))
       /\ main_data_bits = Rep("1", 178)
       /\ SubSeq(id_encoded_bits, 1, 16) = Rep("1", 16)
  /\ EncodeDone /\ args = AllMinimum =>
       /\ lat_value(args.latitude) = Lit(0)
       /\ lon_value(args.longitude) = Lit(0)
       /\ alt_value(args.altitude) = Lit(0)
       /\ \A i \in 1..4 : quat_value(args.quaternion[i]) = Lit(0)
       /\ scale_value(args.scale) = Lit(0)
       /\ main_data_bits = Rep("0", 178)
       /\ SubSeq(id_encoded_bits, 1, 16) = Rep("0", 16)

\* C11: the all-maximum call has been encoded
C11_Witness ==
  /\ pc = "place"
  /\ args = AllMaximum
  /\ main_data_bits[1] = "1"
  /\ main_data_bits[178] = "1"
  /\ encoded_bits[1] = "0"

\* v = Scaled(v) / 2^ScaleOf(v), exactly
ScaleOf(v) == IF v.fl /\ v.e < 0 THEN -v.e ELSE 0
Scaled(v) == PyIntOf(v.neg, BShl(v.m, IF v.fl /\ v.e > 0 THEN v.e ELSE 0))

Negated(a) == [a EXCEPT !.neg = ~a.neg /\ a.m # <<>>]

\* 0 <= q <= 2^n - 1 and |lo + q * lsb - v| < lsb in exact arithmetic, for
\* lo = lo_num / den and lsb = (range_num / den) / (2^n - 1)
RoundTrip(q, v, lo_num, range_num, den, n) ==
  LET ones  == PyIntOf(FALSE, AllOnes(n))
      two_k == PyIntOf(FALSE, BPow2(ScaleOf(v)))
      \* (v - lo - q * lsb) * den * (2^n - 1) * 2^k
      diff  == PyAdd(PyMul(PyMul(Lit(den), ones), Scaled(v)),
                     Negated(PyMul(two_k, PyAdd(PyMul(Lit(lo_num), ones),
                                                PyMul(q, Lit(range_num))))))
  IN  /\ ~q.fl /\ ~q.neg /\ PyCmp(q, ones) <= 0
      /\ PyCmp([diff EXCEPT !.neg = FALSE], PyMul(two_k, Lit(range_num))) < 0

\* C12 as the specification states it: for every real-valued field in its
\* range the quantized value q lies in 0..2^n - 1 and the inverse value
\* min + q * (max - min) / (2^n - 1) differs from the field by less than
\* (max - min) / (2^n - 1).
C12_RoundTrip ==
  EncodeDone /\ FieldsInRange(args) =>
    /\ RoundTrip(lat_value(args.latitude), args.latitude, -90, 180, 1, 35)
    /\ RoundTrip(lon_value(args.longitude), args.longitude, -180, 360, 1, 36)
    /\ RoundTrip(alt_value(args.altitude), args.altitude, -10000, 20000, 1, 25)
    /\ \A i \in 1..4 :
         RoundTrip(quat_value(args.quaternion[i]), args.quaternion[i], -1, 2, 1, 16)
    /\ RoundTrip(scale_value(args.scale), args.scale, 0, 18, 5, 16)

\* the colours the centre of cell c of the 36x36 grid can end with: the
\* colour of the last pair painted on it, else that of the 21x21 grid's
\* module or of the canvas beneath
cell_end_colors(c) ==
  LET painted == { k \in 1..Len(reserved_cells) :
                     reserved_cells[k].primary = c \/ reserved_cells[k].mirror = c }
      g == grid_start(img.origin_x, U)
  IN  IF painted # {}
      THEN { reserved_cells[CHOOSE k \in painted : \A j \in painted : j <= k].color }
      ELSE UNION { IF in_grid(U, px, py)
                   THEN { cells[((py - g) \div U) * grid_size + ((px - g) \div U) + 1] }
                   ELSE canvas_colors(U, <<2 * (px - img.origin_x), 2 * (py - img.origin_y)>>) :
                   px \in centre_pixels(U, c[1]), py \in centre_pixels(U, c[2]) }

\* C13 as the specification states it: pair i < 24 of the 38 cell pairs is
\* painted, both cells alike, black if bit i of the 24 reserved ECC digits
\* is 1 and white otherwise; pairs 24..37 are not painted; the two cells of
\* every pair end with equal colour (here: can end with equal colour,
\* however the rasterizer rounds).
C13_ReservedPairs ==
  result = "image" /\ U >= 1 =>
    /\ Len(id_encoded_bits) = 24
    /\ Len(reserved_cells) = 24
    /\ \A i \in 1..24 :
         reserved_cells[i] =
           [primary |-> <<cell_pairs[i][1], cell_pairs[i][2]>>,
            mirror  |-> <<cell_pairs[i][3], cell_pairs[i][4]>>,
            color   |-> IF id_encoded_bits[i] = "1" THEN "black" ELSE "white"]
    /\ \A i \in 1..Len(cell_pairs) :
         cell_end_colors(<<cell_pairs[i][1], cell_pairs[i][2]>>)
           \cap cell_end_colors(<<cell_pairs[i][3], cell_pairs[i][4]>>) # {}

\* the kinds of the shapes drawn on the canvas, in paint order
LayerOps == [i \in 1..Len(img.layers) |-> img.layers[i].op]

\* the places in paint order of the shapes of kind op and colour fill
Places(op, fill) ==
  { i \in 1..Len(img.layers) : img.layers[i].op = op /\ img.layers[i].fill = fill }

\* every place of S comes before every place of T, neither empty
Before(S, T) == S # {} /\ T # {} /\ \A i \in S, j \in T : i < j

\* C14 as the specification states it: background, black disk, spikes, the
\* two white disks, snapshot, pieslices, restore, re-outline, grid, reserved
\* pairs.
C14_SpikesFirst ==
  img.layers # <<>> =>
    /\ img.background = "white"
    /\ Before(Places("ellipse", "black"), Places("polygon", "black"))
    /\ Before(Places("polygon", "black"), Places("ellipse", "white"))
    /\ Before(Places("ellipse", "white"), Places("crop", "saved"))
    /\ Before(Places("crop", "saved"), Places("pieslice", "black") \cup Places("pieslice", "white"))
    /\ Before(Places("pieslice", "black") \cup Places("pieslice", "white"), Places("paste", "saved"))
    /\ Before(Places("paste", "saved"), Places("outline", "black"))
    /\ (reserved_cells # <<>> => cells # <<>>)

\* C14: the paint steps come in this order: white background, black disk,
\* the two white disks, the four black spikes, snapshot of the interior
\* disk, re-outline of the outer ring, the eight quadrant pieslices, restore
\* of the snapshot, then the 21x21 grid, then the reserved pairs; the spikes
\* come after the white disks and the re-outline before the restore.
C14_PaintOrder ==
  /\ img.layers # <<>> =>
       /\ img.background = "white"
       /\ LayerOps = << "ellipse", "ellipse", "ellipse",
                        "polygon", "polygon", "polygon", "polygon",
                        "crop", "outline",
                        "pieslice", "pieslice", "pieslice", "pieslice",
                        "pieslice", "pieslice", "pieslice", "pieslice", "paste" >>
       /\ img.layers[1].fill = "black"
       /\ img.layers[2].fill = "white" /\ img.layers[3].fill = "white"
       /\ Before(Places("ellipse", "white"), Places("polygon", "black"))
       /\ Before(Places("outline", "black"), Places("paste", "saved"))
  /\ cells # <<>> => img.layers # <<>>
  /\ reserved_cells # <<>> => cells # <<>>

\* C14: every paint step of a call that returns an image has been made
C14_Witness ==
  /\ result = "image"
  /\ U >= 1
  /\ Len(img.layers) = 18
  /\ cells # <<>>
  /\ reserved_cells # <<>>

\* the radii of the shapes of kind op, in paint order
Radii(op) == { img.layers[i].r : i \in { j \in 1..Len(img.layers) : img.layers[j].op = op } }

\* the radii of the middle pieslices (k = 0, the even places of the paint
\* order) or of the inner pieslices (k = 1, the odd places)
SliceRadii(k) ==
  { img.layers[i].r : i \in { j \in 1..Len(img.layers) :
                                img.layers[j].op = "pieslice" /\ j % 2 = k } }

\* C15 as the specification states it: R_outer = 18U, R_mid = 16U and
\* R_inner = 15U; the white disks have radii R_mid and R_inner, the middle
\* pieslices R_mid, the inner pieslices R_inner, the snapshot R_inner.
C15_RadiiAsStated ==
  img.layers # <<>> =>
    /\ img.layers[1].r = 18 * U
    /\ img.layers[2].r = 16 * U
    /\ img.layers[3].r = 15 * U
    /\ SliceRadii(0) = {16 * U}
    /\ SliceRadii(1) = {15 * U}
    /\ Radii("crop") = {15 * U}

\* C15: the black disk has radius 18U, the white disks 17U and 16U, the
\* middle pieslices 17U, the inner pieslices 16U, and the snapshot and its
\* restore 15U.
C15_Radii ==
  img.layers # <<>> =>
    /\ img.layers[1].r = 18 * U
    /\ img.layers[2].r = 17 * U
    /\ img.layers[3].r = 16 * U
    /\ Radii("ellipse") = {18 * U, 17 * U, 16 * U}
    /\ SliceRadii(0) = {17 * U}
    /\ SliceRadii(1) = {16 * U}
    /\ Radii("crop") = {15 * U}
    /\ Radii("paste") = {15 * U}

\* C15: a canvas drawn with the largest module size, its radii all different
C15_Witness ==
  /\ U = MaxU
  /\ Len(img.layers) = 18
  /\ Cardinality(Radii("ellipse") \cup Radii("crop")) = 4
  /\ Cardinality(Radii("pieslice")) = 2

\* the bit a pieslice colour stands for: black is drawn for a bit of 1
SliceBit(fill) == IF fill = "black" THEN 1 ELSE 0

\* the (middle, inner) bits drawn in the quadrant that starts at angle a
QuadrantBits(a) ==
  LET S == { j \in 1..Len(img.layers) : img.layers[j].op = "pieslice" /\ img.layers[j].a0 = a }
      m == CHOOSE j \in S : \A k \in S : j <= k
      n == CHOOSE j \in S : \A k \in S : j >= k
  IN  << SliceBit(img.layers[m].fill), SliceBit(img.layers[n].fill) >>

QuadrantAngles == {0, 90, 180, 270}

\* C16: whatever the input, the quadrant from 0 to 90 degrees carries
\* (middle, inner) = (1,1), 90-180 carries (1,0), 180-270 carries (0,1) and
\* 270-360 carries (0,0); the four pairs are pairwise distinct, and no
\* rotation of the assignment by 90, 180 or 270 degrees gives it back.
C16_QuadrantCode ==
  img.layers # <<>> =>
    /\ \A a \in QuadrantAngles :
         /\ Cardinality({ j \in 1..Len(img.layers) : img.layers[j].op = "pieslice" /\ img.layers[j].a0 = a }) = 2
         /\ \A j \in 1..Len(img.layers) :
              img.layers[j].op = "pieslice" /\ img.layers[j].a0 = a => img.layers[j].a1 = a + 90
    /\ QuadrantBits(0) = <<1, 1>>
    /\ QuadrantBits(90) = <<1, 0>>
    /\ QuadrantBits(180) = <<0, 1>>
    /\ QuadrantBits(270) = <<0, 0>>
    /\ \A a, b \in QuadrantAngles : a # b => QuadrantBits(a) # QuadrantBits(b)
    /\ \A k \in {90, 180, 270} :
         \E a \in QuadrantAngles : QuadrantBits((a + k) % 360) # QuadrantBits(a)

\* C16: the quadrants are drawn for an input other than the typical one
C16_Witness ==
  /\ result = "image"
  /\ args = AllMaximum
  /\ U >= 1
  /\ Cardinality({ j \in 1..Len(img.layers) : img.layers[j].op = "pieslice" }) = 8

C18_GpsWritesOnlyWhenOn ==
  [][ ( /\ clock_once # <<>>
        /\ clock_once' = Tail(clock_once)
        /\ <<latitude_input', longitude_input'>> # <<latitude_input, longitude_input>> )
      => sensors_enabled ]_vars

\* the tag id that the reserved bits of a marker carry
ImageTagId(image) == PyIntBase2(SubSeq(image.id_bits, 1, 12)).v

\* the text between "gptag_" and ".png" in a file name
FileNameId(name) == SubSeq(name, 7, Len(name) - 4)

\* C20: whenever save_tag writes a file, the image written is the one the
\* fields of that moment give, and the tag id it encodes is the number in
\* the file name.
C20_SavedFromCurrentFields ==
  [][ files' # files =>
        /\ <<files'[1].image>> = create_tag_image
        /\ PyIntText(FileNameId(files'[1].name)).err = ""
        /\ ImageTagId(files'[1].image) = PyIntText(FileNameId(files'[1].name)).v ]_vars

\* C19: between any two consecutive calls of detector.detect more than
\* process_interval of Clock time has passed, whether or not the earlier
\* call found a tag.
C19_DetectInterval ==
  Len(detect_calls) = 2 => detect_calls[2] - detect_calls[1] > process_interval

\* C21: after any sequence of toggle_sensors calls, gps.start or gps.stop
\* raising or not, sensor_update_event is not None exactly when
\* sensors_enabled is True, the event it names is the one live
\* update_orientation event of the Clock, and no such event is live while
\* the sensors are off.
C21_EventIffEnabled ==
  /\ sensor_update_event # 0 <=> sensors_enabled
  /\ Cardinality(clock_intervals) <= 1
  /\ clock_intervals = IF sensors_enabled THEN {sensor_update_event} ELSE {}

\* C21: the sensors were switched on and off again, gps.stop raising, so
\* that the GPS service still runs while nothing is scheduled
C21_Witness ==
  /\ ~sensors_enabled
  /\ gps_started
  /\ sensor_update_event = 0
  /\ clock_intervals = {}

====
